---- MODULE Spec2Model ----
(***************************************************************************)
(* restaurant-pipeline: the cleaning nodes (data_processing/nodes.py), the *)
(* serializer they use, and the reporting nodes (reporting/nodes.py).      *)
(*                                                                         *)
(* A DataFrame is [cols, rows]: the column names in order and the rows in  *)
(* order, each row the cells of the columns by position (pandas allows two *)
(* columns of one name).  A cell value is a pair <<tag, payload>>:         *)
(*   <<"null", ..>>  None / NaN / NaT        <<"str", chars>>  a str       *)
(*   <<"int", digits>>  a number             <<"bool", chars>> True        *)
(*   <<"ts", digits>>  a parsed Timestamp    <<"obj", chars>>  an object   *)
(*   <<"list", <<v1, .. >> >>                json.dumps cannot encode      *)
(*   <<"dict", << <<key, v1>>, .. >> >>  (items in insertion order)        *)
(* A text (a Python str) is the sequence of its characters.                *)
(***************************************************************************)
EXTENDS Integers, Sequences, FiniteSets, TLC

VARIABLES node, heap, before, ret, calls, first,
          ser_x, ser_y, ser_rx, ser_ry, ser_back,
          orders_df, tickets_df, gold, par

vars == <<node, heap, before, ret, calls, first,
          ser_x, ser_y, ser_rx, ser_ry, ser_back,
          orders_df, tickets_df, gold, par>>

cleanVars == <<node, heap, before, ret, calls, first>>
serVars == <<ser_x, ser_y, ser_rx, ser_ry, ser_back>>
repVars == <<orders_df, tickets_df, gold, par>>

\* ------------------------------------------------------------------ bounds

\* Rows of a raw table.
MaxRows == 2
\* Elements of a nested list.
MaxItems == 2
\* Rows of a raw customers table.
MaxCustomerRows == 3

\* ------------------------------------------------------------------ values

None == <<"null", <<>>>>
NaT == <<"null", <<"N", "a", "T">>>>
PyTrue == <<"bool", <<"T", "r", "u", "e">>>>

Str(chars) == <<"str", chars>>
Num(digits) == <<"int", digits>>
Ts(digits) == <<"ts", digits>>
Obj(chars) == <<"obj", chars>>
List(items) == <<"list", items>>
Dict(items) == <<"dict", items>>

Tag(v) == v[1]
Payload(v) == v[2]

\* pandas isna on a cell: None, NaN and NaT.
isna(v) == Tag(v) = "null"

\* isinstance(x, (dict, list))
IsNested(v) == Tag(v) \in {"list", "dict"}

\* The code points of the characters the model's texts are made of, in order.
Alphabet == <<" ", "\"", "'", ",", "0", "1", "2", "3", ":", "<", ">", "N", "T", "[", "]",
              "a", "b", "c", "e", "j", "l", "n", "o", "r", "t", "u", "x", "{", "}">>

ord(c) == CHOOSE i \in 1..Len(Alphabet) : Alphabet[i] = c

\* Python's str < str: lexicographic by code point.
RECURSIVE StrLess(_, _)
StrLess(a, b) ==
    IF b = <<>> THEN FALSE
    ELSE IF a = <<>> THEN TRUE
    ELSE IF Head(a) # Head(b) THEN ord(Head(a)) < ord(Head(b))
    ELSE StrLess(Tail(a), Tail(b))

\* ", ".join(parts)
RECURSIVE Join(_, _)
Join(parts, sep) ==
    IF parts = <<>> THEN <<>>
    ELSE IF Len(parts) = 1 THEN parts[1]
    ELSE parts[1] \o sep \o Join(Tail(parts), sep)

\* sorted(items) on the keys (stable insertion sort; a dict's keys are distinct).
RECURSIVE InsertItem(_, _)
InsertItem(it, sorted) ==
    IF sorted = <<>> THEN <<it>>
    ELSE IF StrLess(it[1], Head(sorted)[1]) THEN <<it>> \o sorted
    ELSE <<Head(sorted)>> \o InsertItem(it, Tail(sorted))

RECURSIVE SortItems(_)
SortItems(items) ==
    IF items = <<>> THEN <<>>
    ELSE InsertItem(items[Len(items)], SortItems(SubSeq(items, 1, Len(items) - 1)))

\* json.dumps raises TypeError: some value inside is not JSON-representable.
RECURSIVE JsonRaises(_)
JsonRaises(v) ==
    CASE Tag(v) = "list" -> \E i \in 1..Len(Payload(v)) : JsonRaises(Payload(v)[i])
      [] Tag(v) = "dict" -> \E i \in 1..Len(Payload(v)) : JsonRaises(Payload(v)[i][2])
      [] Tag(v) \in {"obj", "ts"} -> TRUE
      [] OTHER -> FALSE

\* The items of a dict in the order json.dumps writes them.
NoSortKeys(items) == items
DumpOrder(items) == SortItems(items)

\* json.dumps(v, sort_keys=True) where it does not raise: the text.
RECURSIVE JsonDumps(_)
JsonDumps(v) ==
    CASE Tag(v) = "null" -> <<"n", "u", "l", "l">>
      [] Tag(v) = "bool" -> <<"t", "r", "u", "e">>
      [] Tag(v) = "int" -> Payload(v)
      [] Tag(v) = "str" -> <<"\"">> \o Payload(v) \o <<"\"">>
      [] Tag(v) = "list" ->
            <<"[">> \o Join([i \in 1..Len(Payload(v)) |-> JsonDumps(Payload(v)[i])],
                            <<",", " ">>) \o <<"]">>
      [] Tag(v) = "dict" ->
            LET items == DumpOrder(Payload(v))
            IN <<"{">> \o Join([i \in 1..Len(items) |->
                                   <<"\"">> \o items[i][1] \o <<"\"">> \o <<":", " ">>
                                   \o JsonDumps(items[i][2])],
                               <<",", " ">>) \o <<"}">>

\* repr(v): what str() of a dict or list writes for the values inside it.
RECURSIVE PyRepr(_)
PyRepr(v) ==
    CASE Tag(v) = "null" -> IF v = NaT THEN <<"N", "a", "T">> ELSE <<"N", "o", "n", "e">>
      [] Tag(v) = "bool" -> Payload(v)
      [] Tag(v) = "int" -> Payload(v)
      [] Tag(v) = "str" -> <<"'">> \o Payload(v) \o <<"'">>
      [] Tag(v) = "ts" -> <<"T", "<">> \o Payload(v) \o <<">">>
      [] Tag(v) = "obj" -> <<"<">> \o Payload(v) \o <<">">>
      [] Tag(v) = "list" ->
            <<"[">> \o Join([i \in 1..Len(Payload(v)) |-> PyRepr(Payload(v)[i])],
                            <<",", " ">>) \o <<"]">>
      [] Tag(v) = "dict" ->
            <<"{">> \o Join([i \in 1..Len(Payload(v)) |->
                                <<"'">> \o Payload(v)[i][1] \o <<"'">> \o <<":", " ">>
                                \o PyRepr(Payload(v)[i][2])],
                            <<",", " ">>) \o <<"}">>

\* str(v)
PyStr(v) ==
    CASE Tag(v) = "str" -> v
      [] Tag(v) = "ts" -> Str(Payload(v))
      [] OTHER -> Str(PyRepr(v))

\* _safe_serialize(x)
SerializeWithStr(x) == IF IsNested(x) THEN PyStr(x) ELSE x
safe_serialize(x) ==
    IF IsNested(x)
    THEN IF JsonRaises(x) THEN PyStr(x) ELSE Str(JsonDumps(x))
    ELSE x

\* ------------------------------------------------------------- json.loads

JsonError == <<"err", <<>>>>
DigitChars == <<"0", "1", "2", "3", "4", "5", "6", "7", "8", "9">>
Digits == {DigitChars[i] : i \in 1..Len(DigitChars)}

At(s, i) == IF i >= 1 /\ i <= Len(s) THEN s[i] ELSE "EOF"

RECURSIVE SkipSpace(_, _)
SkipSpace(s, i) == IF At(s, i) = " " THEN SkipSpace(s, i + 1) ELSE i

\* The position after the last character of the run of characters in `set` at i.
RECURSIVE RunEnd(_, _, _)
RunEnd(s, i, set) == IF At(s, i) \in set THEN RunEnd(s, i + 1, set) ELSE i

\* The position of the next quote at or after i.
RECURSIVE QuoteAt(_, _)
QuoteAt(s, i) == IF At(s, i) \in {"\"", "EOF"} THEN i ELSE QuoteAt(s, i + 1)

RECURSIVE ParseValue(_, _)
RECURSIVE ParseList(_, _, _)
RECURSIVE ParseDict(_, _, _)

\* The JSON value that starts at s[i], and the position after it.
ParseValue(s, i) ==
    LET c == At(s, i) IN
    CASE c = "n" /\ i + 3 <= Len(s) /\ SubSeq(s, i, i + 3) = <<"n", "u", "l", "l">> ->
            [val |-> None, next |-> i + 4]
      [] c = "t" /\ i + 3 <= Len(s) /\ SubSeq(s, i, i + 3) = <<"t", "r", "u", "e">> ->
            [val |-> PyTrue, next |-> i + 4]
      [] c \in Digits ->
            LET j == RunEnd(s, i, Digits)
            IN [val |-> Num(SubSeq(s, i, j - 1)), next |-> j]
      [] c = "\"" ->
            LET j == QuoteAt(s, i + 1)
            IN IF At(s, j) = "\"" THEN [val |-> Str(SubSeq(s, i + 1, j - 1)), next |-> j + 1]
               ELSE [val |-> JsonError, next |-> j]
      [] c = "[" -> ParseList(s, SkipSpace(s, i + 1), <<>>)
      [] c = "{" -> ParseDict(s, SkipSpace(s, i + 1), <<>>)
      [] OTHER -> [val |-> JsonError, next |-> i]

\* The rest of a list whose elements so far are acc: i is at an element or at "]".
ParseList(s, i, acc) ==
    IF At(s, i) = "]" THEN [val |-> List(acc), next |-> i + 1]
    ELSE LET r == ParseValue(s, i)
             j == SkipSpace(s, r.next)
         IN IF r.val = JsonError THEN r
            ELSE IF At(s, j) = "," THEN ParseList(s, SkipSpace(s, j + 1), Append(acc, r.val))
            ELSE IF At(s, j) = "]" THEN [val |-> List(Append(acc, r.val)), next |-> j + 1]
            ELSE [val |-> JsonError, next |-> j]

\* The rest of an object whose items so far are acc: i is at a key or at "}".
ParseDict(s, i, acc) ==
    IF At(s, i) = "}" THEN [val |-> Dict(acc), next |-> i + 1]
    ELSE IF At(s, i) # "\"" THEN [val |-> JsonError, next |-> i]
    ELSE LET q == QuoteAt(s, i + 1)
             key == SubSeq(s, i + 1, q - 1)
             colon == SkipSpace(s, q + 1)
             r == ParseValue(s, SkipSpace(s, colon + 1))
             j == SkipSpace(s, r.next)
             \* a repeated key keeps its place and takes the later value
             put == IF \E k \in 1..Len(acc) : acc[k][1] = key
                    THEN [k \in 1..Len(acc) |->
                             IF acc[k][1] = key THEN <<key, r.val>> ELSE acc[k]]
                    ELSE Append(acc, <<key, r.val>>)
         IN IF At(s, q) # "\"" \/ At(s, colon) # ":" THEN [val |-> JsonError, next |-> q]
            ELSE IF r.val = JsonError THEN r
            ELSE IF At(s, j) = "," THEN ParseDict(s, SkipSpace(s, j + 1), put)
            ELSE IF At(s, j) = "}" THEN [val |-> Dict(put), next |-> j + 1]
            ELSE [val |-> JsonError, next |-> j]

\* json.loads(text)
JsonLoads(s) ==
    LET r == ParseValue(s, SkipSpace(s, 1))
    IN IF r.val # JsonError /\ SkipSpace(s, r.next) = Len(s) + 1 THEN r.val ELSE JsonError

\* Python's == on decoded structures: lists by position, dicts by key whatever the
\* insertion order, scalars by type and value.
RECURSIVE PyEq(_, _)
PyEq(a, b) ==
    IF Tag(a) # Tag(b) THEN FALSE
    ELSE CASE Tag(a) = "list" ->
                 /\ Len(Payload(a)) = Len(Payload(b))
                 /\ \A i \in 1..Len(Payload(a)) : PyEq(Payload(a)[i], Payload(b)[i])
           [] Tag(a) = "dict" ->
                 /\ Len(Payload(a)) = Len(Payload(b))
                 /\ \A i \in 1..Len(Payload(a)) :
                       \E j \in 1..Len(Payload(b)) :
                           /\ Payload(a)[i][1] = Payload(b)[j][1]
                           /\ PyEq(Payload(a)[i][2], Payload(b)[j][2])
           [] OTHER -> a = b

\* ------------------------------------------------------------------ pandas

NoTable == [cols |-> <<"(no table)">>, rows |-> <<>>]
DataFrame(cols, rows) == [cols |-> cols, rows |-> rows]

HasCol(df, name) == \E i \in 1..Len(df.cols) : df.cols[i] = name
ColsNamed(df, name) == {i \in 1..Len(df.cols) : df.cols[i] = name}

\* The rows at the positions in keep, from position i on, in order.
RECURSIVE RowsAt(_, _, _)
RowsAt(rows, keep, i) ==
    IF i > Len(rows) THEN <<>>
    ELSE (IF i \in keep THEN <<rows[i]>> ELSE <<>>) \o RowsAt(rows, keep, i + 1)

IsFirstOccurrence(rows, i) == \A j \in 1..(i - 1) : rows[j] # rows[i]
HasNoNull(rows, i) == \A c \in 1..Len(rows[i]) : ~isna(rows[i][c])

\* df.drop_duplicates(): all columns compared, the first occurrence kept.
drop_duplicates(df) ==
    [df EXCEPT !.rows =
        RowsAt(df.rows, {i \in 1..Len(df.rows) : IsFirstOccurrence(df.rows, i)}, 1)]

\* df.dropna(): a row with a null in any column goes.
dropna(df) ==
    [df EXCEPT !.rows = RowsAt(df.rows, {i \in 1..Len(df.rows) : HasNoNull(df.rows, i)}, 1)]

\* df.rename(columns={old: new})
rename(df, old, new) ==
    [df EXCEPT !.cols = [i \in 1..Len(df.cols) |-> IF df.cols[i] = old THEN new ELSE df.cols[i]]]

\* int(text) as a text: leading zeros go.
RECURSIVE StripZeros(_)
StripZeros(d) == IF Len(d) > 1 /\ Head(d) = "0" THEN StripZeros(Tail(d)) ELSE d

IsDateText(v) ==
    /\ Tag(v) = "str"
    /\ Payload(v) # <<>>
    /\ \A i \in 1..Len(Payload(v)) : Payload(v)[i] \in Digits

\* The texts pd.to_datetime reads as missing: the empty text and pandas' nat_strings.
IsNatText(v) == Tag(v) = "str" /\ Payload(v) \in {<<>>, <<"N", "a", "T">>}

\* pd.to_datetime raises on this cell: a text that is no date (errors="raise").
DatetimeRaises(v) ==
    /\ Tag(v) \notin {"ts", "null", "int"}
    /\ ~IsDateText(v)
    /\ ~IsNatText(v)

\* pd.to_datetime on one cell it accepts. A date is written as its day number; two
\* spellings of one day ("1", "01") are one Timestamp; the empty text, "NaT" and a
\* null are NaT; a Timestamp is itself; a number counts from the epoch.
to_datetime(v) ==
    CASE Tag(v) = "ts" -> v
      [] IsDateText(v) -> Ts(StripZeros(Payload(v)))
      [] Tag(v) = "int" -> Ts(<<"e", "p", "o", "c", "h">> \o Payload(v))
      [] OTHER -> NaT

\* orders["ordered_at"] = pd.to_datetime(orders["ordered_at"]), where no cell raises
ParseOrderedAt(df) ==
    [df EXCEPT !.rows = [r \in 1..Len(df.rows) |->
        [c \in 1..Len(df.cols) |-> IF df.cols[c] = "ordered_at" THEN to_datetime(df.rows[r][c])
                                   ELSE df.rows[r][c]]]]

\* Series.astype(str) on one cell
astype_str(v) == PyStr(v)

\* tickets["tags"] = tickets["tags"].astype(str)
TagsAsStr(df) ==
    [df EXCEPT !.rows = [r \in 1..Len(df.rows) |->
        [c \in 1..Len(df.cols) |-> IF df.cols[c] = "tags" THEN astype_str(df.rows[r][c])
                                   ELSE df.rows[r][c]]]]

\* tickets.applymap(_safe_serialize): a new frame, every cell serialized.
applymap_safe_serialize(df) ==
    [df EXCEPT !.rows = [r \in 1..Len(df.rows) |->
        [c \in 1..Len(df.cols) |-> safe_serialize(df.rows[r][c])]]]

\* ------------------------------------------------------------ raw inputs

KeyA == <<"a">>
KeyB == <<"b">>
Unencodable == Obj(<<"o", "b", "j">>)

\* The cells a raw column may hold.
ColValues(name) ==
    CASE name \in {"id", "order_id", "ticket_id"} -> {Str(KeyA), Str(KeyB)}
      [] name = "name" -> {None, Str(KeyA), Str(KeyB)}
      [] name = "ordered_at" ->
            {None, Str(<<"1">>), Str(<<"0", "1">>), Str(<<"x">>), Str(<<"N", "a", "T">>)}
      [] name = "subtotal" -> {None, Num(<<"1">>)}
      [] name = "status" -> {None, Str(<<"o">>)}
      [] name \in {"tags", "meta"} ->
            {None, Str(<<"x">>), Num(<<"1">>), List(<<Str(KeyA)>>),
             Dict(<<<<KeyA, Num(<<"1">>)>>, <<KeyB, Num(<<"2">>)>>>>),
             Dict(<<<<KeyB, Num(<<"2">>)>>, <<KeyA, Num(<<"1">>)>>>>),
             Dict(<<<<KeyA, Unencodable>>, <<KeyB, Num(<<"1">>)>>>>),
             Dict(<<<<KeyB, Num(<<"1">>)>>, <<KeyA, Unencodable>>>>)}

RowsOver(cols) == {r \in [1..Len(cols) -> UNION {ColValues(cols[c]) : c \in 1..Len(cols)}] :
                      \A c \in 1..Len(cols) : r[c] \in ColValues(cols[c])}

TablesUpTo(cols, max) ==
    {DataFrame(cols, rows) : rows \in UNION {[1..n -> RowsOver(cols)] : n \in 0..max}}
TablesOver(cols) == TablesUpTo(cols, MaxRows)

CustomerSchemas == {<<"id", "name">>}
OrderSchemas == {<<"id", "ordered_at", "subtotal">>, <<"order_id", "ordered_at", "subtotal">>,
                 <<"ordered_at", "subtotal">>, <<"id", "order_id", "ordered_at">>,
                 <<"id", "subtotal">>}
TicketSchemas == {<<"ticket_id", "status", "tags">>, <<"ticket_id", "meta">>}

Nodes == {"clean_customers", "clean_orders", "clean_tickets"}

RawTables(n) ==
    CASE n = "clean_customers" -> UNION {TablesUpTo(cols, MaxCustomerRows) : cols \in CustomerSchemas}
      [] n = "clean_orders" -> UNION {TablesOver(cols) : cols \in OrderSchemas}
      [] n = "clean_tickets" -> UNION {TablesOver(cols) : cols \in TicketSchemas}

\* ----------------------------------------------------- the cleaning nodes

\* The DataFrame objects: the caller's, and the one a call allocates.
Objs == {"caller", "new1", "new2"}
NoCall == [ref |-> "none", df |-> NoTable]
NoRet == [kind |-> "none", ref |-> "none"]

Unset == <<"unset", <<>>>>
InitIdleSerializer ==
    /\ ser_x = Unset /\ ser_y = Unset /\ ser_rx = Unset /\ ser_ry = Unset /\ ser_back = Unset
GoldNames == {"average_order_value", "tickets_per_order", "total_revenue"}
\* The three reporting nodes run side by side: where each one is, the names each
\* has bound so far, and the two tables as they were handed over.
NotStarted(orders, tickets) ==
    [pc |-> [n \in GoldNames |-> "start"],
     orders |-> orders, tickets |-> tickets,
     avg_order_value |-> Unset, total_revenue |-> Unset,
     order_tickets |-> NoTable, tickets_per_order |-> NoTable]
InitIdleReporting ==
    /\ orders_df = NoTable /\ tickets_df = NoTable /\ gold = [n \in GoldNames |-> NoTable]
    /\ par = NotStarted(NoTable, NoTable)
InitIdleCleaning ==
    /\ node = "none" /\ heap = [o \in Objs |-> NoTable] /\ before = NoCall
    /\ ret = NoRet /\ calls = 0 /\ first = NoTable

\* One node of the data_processing pipeline is run on the raw table the loader
\* handed to the caller.
Init ==
    /\ node \in Nodes
    /\ \E df \in RawTables(node) : heap = [o \in Objs |-> IF o = "caller" THEN df ELSE NoTable]
    /\ before = NoCall
    /\ ret = NoRet
    /\ calls = 0
    /\ first = NoTable
    /\ InitIdleSerializer
    /\ InitIdleReporting

\* The argument of the next call: the caller's raw table, then the table the
\* previous call returned.
NextArg == IF calls = 0 THEN "caller" ELSE ret.ref
CanCall(n) == node = n /\ calls < 2 /\ ret.kind # "raised"

\* What a call leaves behind: the heap, and a returned reference or an exception.
Returned(h, ref) ==
    /\ heap' = h
    /\ ret' = [kind |-> "returned", ref |-> ref]
    /\ first' = IF calls = 0 THEN h[ref] ELSE first
Raised(h) ==
    /\ heap' = h
    /\ ret' = [kind |-> "raised", ref |-> "none"]
    /\ first' = first
Called(arg) ==
    /\ before' = [ref |-> arg, df |-> heap[arg]]
    /\ calls' = calls + 1
    /\ UNCHANGED <<node, serVars, repVars>>

\* clean_customers with the null-drop left out.
CleanCustomersDedupOnly(df) == drop_duplicates(df)

\* clean_customers(customers): both steps act on the argument itself.
CleanCustomersBody(df) == dropna(drop_duplicates(df))
CleanCustomers ==
    /\ CanCall("clean_customers")
    /\ LET arg == NextArg
       IN /\ Returned([heap EXCEPT ![arg] = CleanCustomersBody(heap[arg])], arg)
          /\ Called(arg)

\* clean_orders(orders) up to the parse: rename, dedup and null-drop, all in place.
OrdersNotRenamed(df) == df
OrdersRenamed(df) == IF HasCol(df, "id") THEN rename(df, "id", "order_id") ELSE df
OrdersBeforeParse(df) == dropna(drop_duplicates(OrdersRenamed(df)))
\* orders["ordered_at"] raises KeyError, or pd.to_datetime raises on a cell.
OrdersParseRaises(df) ==
    \/ ~HasCol(df, "ordered_at")
    \/ \E r \in 1..Len(df.rows) : \E c \in ColsNamed(df, "ordered_at") :
          DatetimeRaises(df.rows[r][c])
CleanOrders ==
    /\ CanCall("clean_orders")
    /\ LET arg == NextArg
           df == OrdersBeforeParse(heap[arg])
       IN /\ IF OrdersParseRaises(df)
             THEN Raised([heap EXCEPT ![arg] = df])
             ELSE Returned([heap EXCEPT ![arg] = ParseOrderedAt(df)], arg)
          /\ Called(arg)

\* clean_tickets(tickets): applymap makes a new frame, which the later steps act on.
TicketsTagsUnchanged(df) == df
TicketsTagsAsStr(df) == IF HasCol(df, "tags") THEN TagsAsStr(df) ELSE df
CleanTicketsNoDedup(df) == dropna(TicketsTagsAsStr(applymap_safe_serialize(df)))
CleanTicketsBody(df) == dropna(drop_duplicates(TicketsTagsAsStr(applymap_safe_serialize(df))))
CleanTickets ==
    /\ CanCall("clean_tickets")
    /\ LET arg == NextArg
           new == IF calls = 0 THEN "new1" ELSE "new2"
       IN /\ Returned([heap EXCEPT ![new] = CleanTicketsBody(heap[arg])], new)
          /\ Called(arg)

Next == CleanCustomers \/ CleanOrders \/ CleanTickets

Spec == Init /\ [][Next]_vars

\* ------------------------------------------------ claims: cleaning nodes

\* The table the last call returned, and the argument as it was before that call.
Out == heap[ret.ref]
HasReturned == ret.kind = "returned"
FirstReturned == HasReturned /\ calls = 1

NoDuplicateRows(df) == \A i, j \in 1..Len(df.rows) : i # j => df.rows[i] # df.rows[j]
NoNullCell(df) == \A i \in 1..Len(df.rows) : HasNoNull(df.rows, i)

\* C1: after a call of a cleaning node, whether it returned or raised, the caller's
\* argument table is as it was before the call, and a returned table is another
\* object than the argument.
C1_InputLeftUnchanged ==
    ret.kind # "none" =>
        /\ heap[before.ref] = before.df
        /\ (HasReturned => ret.ref # before.ref)

\* C2: a table a cleaning node returns has no two rows equal in all columns and no
\* null in any cell.
C2_CleanedNoDuplicateNoNull ==
    HasReturned => NoDuplicateRows(Out) /\ NoNullCell(Out)

\* C3: a cleaning node run on the table it returned returns that same table again.
C3_Idempotent ==
    (HasReturned /\ calls = 2) => Out = first

\* C4 as stated: every table clean_orders returns has an order_id column and no
\* id column.
C4_AlwaysOrderId ==
    (node = "clean_orders" /\ HasReturned) =>
        HasCol(Out, "order_id") /\ ~HasCol(Out, "id")

\* C4 as amended: every table clean_orders returns has no id column, and has an
\* order_id column exactly when its input had an id or an order_id column.
C4_OrderIdWhenInputHadKey ==
    (node = "clean_orders" /\ HasReturned) =>
        /\ ~HasCol(Out, "id")
        /\ HasCol(Out, "order_id") <=>
              (HasCol(before.df, "id") \/ HasCol(before.df, "order_id"))

C4_Witness ==
    /\ node = "clean_orders" /\ FirstReturned
    /\ HasCol(before.df, "id") /\ HasCol(before.df, "order_id")
    /\ Len(Out.rows) = 2
    /\ ColsNamed(Out, "order_id") = {1, 2}

\* The rows of the argument that remain after dedup and null-drop.
Remaining == OrdersBeforeParse(before.df)

\* C5: clean_orders either returns a table whose every ordered_at is a parsed
\* timestamp, or raises; it raises whenever a row remaining after dedup and
\* null-drop has an ordered_at that is not a date.
C5_ParsedOrRaised ==
    (node = "clean_orders" /\ calls = 1) =>
        /\ HasReturned =>
              \A r \in 1..Len(Out.rows) : \A c \in ColsNamed(Out, "ordered_at") :
                  Tag(Out.rows[r][c]) = "ts"
        /\ (\E r \in 1..Len(Remaining.rows) : \E c \in ColsNamed(Remaining, "ordered_at") :
                ~IsDateText(Remaining.rows[r][c]))
              => ret.kind = "raised"

\* ------------------------------------------------- claims: clean_tickets

\* Two raw rows equal cell by cell, nested cells compared as structures.
RowsStructurallyEqual(r1, r2) == \A c \in 1..Len(r1) : PyEq(r1[c], r2[c])
RowEncodable(r) == \A c \in 1..Len(r) : ~JsonRaises(r[c])

\* A raw row as the cleaned table holds it.
CleanedRow(cols, r) ==
    [c \in 1..Len(cols) |->
        IF cols[c] = "tags" THEN astype_str(safe_serialize(r[c])) ELSE safe_serialize(r[c])]

\* The rows of the returned table that came from raw rows i and j.
OutRowsFrom(i, j) ==
    {k \in 1..Len(Out.rows) :
        Out.rows[k] \in {CleanedRow(before.df.cols, before.df.rows[i]),
                         CleanedRow(before.df.cols, before.df.rows[j])}}

\* C8 as stated: two raw ticket rows without a null that are equal in every
\* scalar cell and structurally equal in every nested cell are one row of the
\* cleaned table.
C8_StructurallyEqualRowsCollapse ==
    (node = "clean_tickets" /\ FirstReturned) =>
        \A i, j \in 1..Len(before.df.rows) :
            (/\ i < j
             /\ RowsStructurallyEqual(before.df.rows[i], before.df.rows[j])
             /\ HasNoNull(before.df.rows, i))
            => Cardinality(OutRowsFrom(i, j)) = 1

\* C8 as amended: the same, for rows whose nested cells json.dumps can encode.
C8_EncodableRowsCollapse ==
    (node = "clean_tickets" /\ FirstReturned) =>
        \A i, j \in 1..Len(before.df.rows) :
            (/\ i < j
             /\ RowsStructurallyEqual(before.df.rows[i], before.df.rows[j])
             /\ HasNoNull(before.df.rows, i)
             /\ RowEncodable(before.df.rows[i]) /\ RowEncodable(before.df.rows[j]))
            => /\ Cardinality(OutRowsFrom(i, j)) = 1
               /\ \E k \in 1..Len(Out.rows) :
                     Out.rows[k] = CleanedRow(before.df.cols, before.df.rows[i])

C8_Witness ==
    /\ node = "clean_tickets" /\ FirstReturned
    /\ Len(before.df.rows) = 2
    /\ before.df.rows[1] # before.df.rows[2]
    /\ RowsStructurallyEqual(before.df.rows[1], before.df.rows[2])
    /\ HasNoNull(before.df.rows, 1)
    /\ RowEncodable(before.df.rows[1])
    /\ Len(Out.rows) = 1

\* C9: every cell of a table clean_tickets returns is a string, a number or a
\* boolean, and every cell of its tags column is a string.
C9_CleanedTicketsScalar ==
    (node = "clean_tickets" /\ HasReturned) =>
        \A r \in 1..Len(Out.rows) : \A c \in 1..Len(Out.cols) :
            /\ Tag(Out.rows[r][c]) \in {"str", "int", "bool"}
            /\ Out.cols[c] = "tags" => Tag(Out.rows[r][c]) = "str"

C9_Witness ==
    /\ node = "clean_tickets" /\ FirstReturned
    /\ HasCol(before.df, "tags")
    /\ Len(before.df.rows) = 2 /\ Len(Out.rows) = 2
    /\ \E c \in ColsNamed(before.df, "tags") :
          /\ Tag(before.df.rows[1][c]) = "dict" /\ JsonRaises(before.df.rows[1][c])
          /\ Tag(before.df.rows[2][c]) \in {"int", "null"}

\* -------------------------------------------------------- the serializer

Leaves == {None, PyTrue, Num(<<"1">>), Str(KeyA), Unencodable}
InnerLeaves == {Num(<<"1">>), Str(KeyB), Unencodable}
InnerDictLeaves == {Num(<<"1">>), Unencodable}
DictKeys == {KeyA, KeyB}

\* Every dict over the keys with values from vals, in every insertion order.
DictsOver(vals) ==
    {Dict(<<>>)}
    \cup {Dict(<<<<k, v>>>>) : k \in DictKeys, v \in vals}
    \cup UNION {{Dict(<<<<k1, v1>>, <<k2, v2>>>>) :
                    k2 \in DictKeys \ {k1}, v1 \in vals, v2 \in vals} : k1 \in DictKeys}

ListsOver(vals, n) == {List(items) : items \in UNION {[1..k -> vals] : k \in 0..n}}

Inner == Leaves \cup ListsOver(InnerLeaves, 1) \cup DictsOver(InnerDictLeaves)
SerInputs == Leaves \cup ListsOver(Inner, MaxItems) \cup DictsOver(Inner)

Perms(n) == {p \in [1..n -> 1..n] : \A i, j \in 1..n : i # j => p[i] # p[j]}
Choices(sets) ==
    {f \in [1..Len(sets) -> UNION {sets[i] : i \in 1..Len(sets)}] :
        \A i \in 1..Len(sets) : f[i] \in sets[i]}

\* The values that are v with the items of its dicts inserted in another order.
RECURSIVE Reinsertions(_)
Reinsertions(v) ==
    CASE Tag(v) = "list" ->
            {List(f) : f \in Choices([i \in 1..Len(Payload(v)) |-> Reinsertions(Payload(v)[i])])}
      [] Tag(v) = "dict" ->
            {Dict([i \in 1..Len(Payload(v)) |-> <<Payload(v)[p[i]][1], f[p[i]]>>]) :
                p \in Perms(Len(Payload(v))),
                f \in Choices([i \in 1..Len(Payload(v)) |-> Reinsertions(Payload(v)[i][2])])}
      [] OTHER -> {v}

\* _safe_serialize is called on a value and on a second one: the same structure
\* inserted in some order, or a scalar.
InitSerialize ==
    /\ ser_x \in SerInputs
    /\ ser_y \in Reinsertions(ser_x) \cup Leaves
    /\ ser_rx = Unset /\ ser_ry = Unset /\ ser_back = Unset
    /\ InitIdleCleaning
    /\ InitIdleReporting

Serialize ==
    /\ ser_rx = Unset
    /\ ser_rx' = safe_serialize(ser_x)
    /\ ser_ry' = safe_serialize(ser_y)
    /\ UNCHANGED <<ser_x, ser_y, ser_back, cleanVars, repVars>>

\* json.loads(result) on the text a nested value was serialized to; JsonError
\* stands for json.loads raising.
Decode ==
    /\ ser_rx # Unset /\ ser_back = Unset
    /\ IsNested(ser_x)
    /\ ser_back' = JsonLoads(Payload(ser_rx))
    /\ UNCHANGED <<ser_x, ser_y, ser_rx, ser_ry, cleanVars, repVars>>

NextSerialize == Serialize \/ Decode

SpecSerialize == InitSerialize /\ [][NextSerialize]_vars

\* C6 as stated: two structurally equal nested values serialize to the same
\* string, and a scalar is returned unchanged.
C6_Canonical ==
    ser_rx # Unset =>
        /\ (IsNested(ser_x) /\ PyEq(ser_x, ser_y)) => ser_rx = ser_ry
        /\ ~IsNested(ser_x) => ser_rx = ser_x

\* C6 as amended: two structurally equal nested values that json.dumps can encode
\* serialize to the same string, and a scalar is returned unchanged.
C6_CanonicalWhenEncodable ==
    ser_rx # Unset =>
        /\ (IsNested(ser_x) /\ PyEq(ser_x, ser_y) /\ ~JsonRaises(ser_x)) =>
              /\ ser_rx = ser_ry
              /\ Tag(ser_rx) = "str"
        /\ ~IsNested(ser_x) => ser_rx = ser_x

C6_Witness ==
    /\ ser_rx # Unset
    /\ Tag(ser_x) = "dict" /\ Len(Payload(ser_x)) = 2
    /\ Tag(Payload(ser_x)[1][2]) = "dict" /\ Len(Payload(Payload(ser_x)[1][2])) = 2
    /\ ~JsonRaises(ser_x)
    /\ PyEq(ser_x, ser_y)
    /\ Payload(ser_x)[1][1] # Payload(ser_y)[1][1]
    /\ Payload(ser_x)[1][2] # Payload(ser_y)[2][2]
    /\ ser_rx = ser_ry

\* C7: decoding as JSON the string a nested value of string-keyed dicts and lists
\* was serialized to gives a structure equal to the value, when json.dumps could
\* encode it.
C7_RoundTrip ==
    (ser_back # Unset /\ ~JsonRaises(ser_x)) => PyEq(ser_back, ser_x)

C7_Witness ==
    /\ ser_back # Unset
    /\ ~JsonRaises(ser_x)
    /\ Tag(ser_x) = "dict" /\ Len(Payload(ser_x)) = 2
    /\ Tag(Payload(ser_x)[1][2]) = "list" /\ Len(Payload(Payload(ser_x)[1][2])) = 1
    /\ Tag(Payload(ser_x)[2][2]) = "null"
    /\ ser_back # ser_x
    /\ PyEq(ser_back, ser_x)

\* ---------------------------------------------------- the reporting nodes

ColOf(df, name) == CHOOSE c \in 1..Len(df.cols) : df.cols[c] = name
OtherCols(df, name) == {c \in 1..Len(df.cols) : df.cols[c] # name}

\* The positions of a set of positions, ascending.
RECURSIVE Ascending(_)
Ascending(set) ==
    IF set = {} THEN <<>>
    ELSE LET m == CHOOSE x \in set : \A y \in set : x <= y
         IN <<m>> \o Ascending(set \ {m})

\* The cells of a row at the positions, in order.
Cells(row, positions) == [i \in 1..Len(positions) |-> row[positions[i]]]

\* pd.merge(left, right, on=key): the inner join, the key once, then the other
\* columns of left, then those of right; rows in left order, then right order.
RECURSIVE JoinLeftRows(_, _, _, _)
JoinLeftRows(left, right, key, i) ==
    IF i > Len(left.rows) THEN <<>>
    ELSE LET lk == left.rows[i][ColOf(left, key)]
             matches == Ascending({j \in 1..Len(right.rows) :
                                      right.rows[j][ColOf(right, key)] = lk})
             lo == Ascending(OtherCols(left, key))
             ro == Ascending(OtherCols(right, key))
         IN [m \in 1..Len(matches) |->
                <<lk>> \o Cells(left.rows[i], lo) \o Cells(right.rows[matches[m]], ro)]
            \o JoinLeftRows(left, right, key, i + 1)

merge(left, right, key) ==
    DataFrame(<<key>> \o Cells(left.cols, Ascending(OtherCols(left, key)))
                     \o Cells(right.cols, Ascending(OtherCols(right, key))),
              JoinLeftRows(left, right, key, 1))

\* str(n) of a count below 100
ToDigits(n) ==
    IF n < 10 THEN <<DigitChars[n + 1]>>
    ELSE <<DigitChars[(n \div 10) + 1], DigitChars[(n % 10) + 1]>>

\* The group keys in sorted order (groupby sorts, and drops a null key).
RECURSIVE SortedKeys(_)
SortedKeys(keys) ==
    IF keys = {} THEN <<>>
    ELSE LET m == CHOOSE x \in keys : \A y \in keys \ {x} : StrLess(Payload(x), Payload(y))
         IN <<m>> \o SortedKeys(keys \ {m})

\* The count of a group: the rows of the joined frame with the key and a non-null
\* counted cell.
GroupCount(df, key, counted, k) ==
    Cardinality({r \in 1..Len(df.rows) :
                    /\ df.rows[r][ColOf(df, key)] = k
                    /\ ~isna(df.rows[r][ColOf(df, counted)])})

\* df.groupby(key)[counted].count().reset_index()
groupby_count(df, key, counted) ==
    LET keys == SortedKeys({df.rows[r][ColOf(df, key)] : r \in 1..Len(df.rows)}
                           \ {None, NaT})
    IN DataFrame(<<key, counted>>,
                 [g \in 1..Len(keys) |->
                     <<keys[g], Num(ToDigits(GroupCount(df, key, counted, keys[g])))>>])

\* create_tickets_per_order(orders, tickets)
create_tickets_per_order(orders, tickets) ==
    rename(groupby_count(merge(orders, tickets, "order_id"), "order_id", "ticket_id"),
           "ticket_id", "number_of_tickets")

\* int(text) of a run of digits
RECURSIVE ToInt(_)
ToInt(digits) ==
    IF digits = <<>> THEN 0
    ELSE 10 * ToInt(SubSeq(digits, 1, Len(digits) - 1))
         + (CHOOSE d \in 0..9 : DigitChars[d + 1] = digits[Len(digits)])

\* float("nan"), the undefined number; a null to isna.
NaN == <<"null", <<"n", "a", "n">>>>

\* The float p / q.
Float(p, q) == <<"float", ToDigits(p) \o <<"/">> \o ToDigits(q)>>

RECURSIVE GCD(_, _)
GCD(a, b) == IF b = 0 THEN a ELSE GCD(b, a % b)

\* The non-null cells of a column, top down (the reductions skip nulls).
RECURSIVE Values(_, _, _)
Values(df, name, i) ==
    IF i > Len(df.rows) THEN <<>>
    ELSE LET v == df.rows[i][ColOf(df, name)]
         IN (IF isna(v) THEN <<>> ELSE <<v>>) \o Values(df, name, i + 1)

RECURSIVE SumOf(_)
SumOf(values) ==
    IF values = <<>> THEN 0 ELSE ToInt(Payload(Head(values))) + SumOf(Tail(values))

\* df[name].sum(): 0 for no values.
sum(df, name) == Num(ToDigits(SumOf(Values(df, name, 1))))

\* A mean that is 0 for no values.
MeanOrZero(df, name) ==
    LET values == Values(df, name, 1)
        g == GCD(SumOf(values), Len(values))
    IN IF values = <<>> THEN Num(<<"0">>)
       ELSE Float(SumOf(values) \div g, Len(values) \div g)

\* df[name].mean(): the sum over the count, in lowest terms; NaN for no values.
mean(df, name) ==
    LET values == Values(df, name, 1)
        g == GCD(SumOf(values), Len(values))
    IN IF values = <<>> THEN NaN
       ELSE Float(SumOf(values) \div g, Len(values) \div g)

\* create_average_order_value(orders)
create_average_order_value(orders) ==
    DataFrame(<<"average_order_value">>, <<<<mean(orders, "subtotal")>>>>)

\* create_total_revenue(orders)
create_total_revenue(orders) ==
    DataFrame(<<"total_revenue">>, <<<<sum(orders, "subtotal")>>>>)

KeyC == <<"c">>
ReportValues(name) ==
    CASE name = "order_id" -> {Str(KeyA), Str(KeyB), Str(KeyC)}
      [] name = "ticket_id" -> {Str(KeyA), Str(KeyB)}
      [] name = "subtotal" -> {Num(<<"1">>), Num(<<"2">>)}

ReportRows(cols) ==
    {r \in [1..Len(cols) -> UNION {ReportValues(cols[c]) : c \in 1..Len(cols)}] :
        \A c \in 1..Len(cols) : r[c] \in ReportValues(cols[c])}

\* The tables a cleaning node hands on: no null, no two equal rows.
CleanedTables(cols) ==
    {DataFrame(cols, rows) :
        rows \in {s \in UNION {[1..n -> ReportRows(cols)] : n \in 0..MaxRows} :
                     \A i, j \in 1..Len(s) : i # j => s[i] # s[j]}}

CleanedOrders == {df \in CleanedTables(<<"order_id", "subtotal">>) :
                     \A r \in 1..Len(df.rows) : df.rows[r][1] # Str(KeyC)}
CleanedTickets == CleanedTables(<<"ticket_id", "order_id">>)

InitReporting ==
    /\ orders_df \in CleanedOrders
    /\ tickets_df \in CleanedTickets
    /\ gold = [n \in GoldNames |-> NoTable]
    /\ par = NotStarted(NoTable, NoTable)
    /\ InitIdleCleaning
    /\ InitIdleSerializer

CreateTicketsPerOrder ==
    /\ gold["tickets_per_order"] = NoTable
    /\ gold' = [gold EXCEPT !["tickets_per_order"] =
                   create_tickets_per_order(orders_df, tickets_df)]
    /\ UNCHANGED <<orders_df, tickets_df, par, cleanVars, serVars>>

CreateAverageOrderValue ==
    /\ gold["average_order_value"] = NoTable
    /\ gold' = [gold EXCEPT !["average_order_value"] = create_average_order_value(orders_df)]
    /\ UNCHANGED <<orders_df, tickets_df, par, cleanVars, serVars>>

CreateTotalRevenue ==
    /\ gold["total_revenue"] = NoTable
    /\ gold' = [gold EXCEPT !["total_revenue"] = create_total_revenue(orders_df)]
    /\ UNCHANGED <<orders_df, tickets_df, par, cleanVars, serVars>>

NextReporting == CreateAverageOrderValue \/ CreateTicketsPerOrder \/ CreateTotalRevenue

SpecReporting == InitReporting /\ [][NextReporting]_vars

\* --------------------------------------------------- claims: reporting

KeysOf(df) == {df.rows[r][ColOf(df, "order_id")] : r \in 1..Len(df.rows)}
TicketsCarrying(k) ==
    Cardinality({r \in 1..Len(tickets_df.rows) :
                    tickets_df.rows[r][ColOf(tickets_df, "order_id")] = k})

\* C10: create_tickets_per_order returns a table of the columns order_id and
\* number_of_tickets with exactly one row for each order_id that is in both
\* tables, and that row's number_of_tickets is the number of rows of the tickets
\* table with that order_id.
C10_TicketsPerOrder ==
    LET out == gold["tickets_per_order"] IN
    out # NoTable =>
        /\ out.cols = <<"order_id", "number_of_tickets">>
        /\ {out.rows[r][1] : r \in 1..Len(out.rows)} = KeysOf(orders_df) \cap KeysOf(tickets_df)
        /\ \A r1, r2 \in 1..Len(out.rows) : r1 # r2 => out.rows[r1][1] # out.rows[r2][1]
        /\ \A r \in 1..Len(out.rows) :
              out.rows[r][2] = Num(ToDigits(TicketsCarrying(out.rows[r][1])))

\* The part of C10 that does not depend on the orders' keys being distinct.
C10_RowsAndColumns ==
    LET out == gold["tickets_per_order"] IN
    out # NoTable =>
        /\ out.cols = <<"order_id", "number_of_tickets">>
        /\ {out.rows[r][1] : r \in 1..Len(out.rows)} = KeysOf(orders_df) \cap KeysOf(tickets_df)
        /\ \A r1, r2 \in 1..Len(out.rows) : r1 # r2 => out.rows[r1][1] # out.rows[r2][1]
        /\ NoDuplicateRows(DataFrame(<<"order_id">>,
                                     [r \in 1..Len(orders_df.rows) |-> <<orders_df.rows[r][1]>>]))
              => \A r \in 1..Len(out.rows) :
                    out.rows[r][2] = Num(ToDigits(TicketsCarrying(out.rows[r][1])))

\* The sum of the subtotals, counted out: one unit per row and unit of its subtotal.
SubtotalUnits ==
    Cardinality(UNION {{<<r, u>> : u \in 1..ToInt(Payload(orders_df.rows[r][ColOf(orders_df, "subtotal")]))} :
                          r \in 1..Len(orders_df.rows)})

\* C11: each of create_average_order_value and create_total_revenue returns one
\* row of its one column; on a zero-row orders table the average is NaN, not 0,
\* and the total is 0, not NaN; on other tables they are the mean and the sum of
\* subtotal over all rows.
C11_Aggregates ==
    LET aov == gold["average_order_value"]
        rev == gold["total_revenue"]
        n == Len(orders_df.rows)
    IN /\ aov # NoTable =>
              /\ aov.cols = <<"average_order_value">> /\ Len(aov.rows) = 1
              /\ n = 0 => aov.rows[1][1] = NaN /\ aov.rows[1][1] # Num(<<"0">>)
              /\ n > 0 => \E p \in 0..SubtotalUnits, q \in 1..n :
                              /\ aov.rows[1][1] = Float(p, q)
                              /\ p * n = q * SubtotalUnits
       /\ rev # NoTable =>
              /\ rev.cols = <<"total_revenue">> /\ Len(rev.rows) = 1
              /\ n = 0 => rev.rows[1][1] = Num(<<"0">>) /\ ~isna(rev.rows[1][1])
              /\ n > 0 => rev.rows[1][1] = Num(ToDigits(SubtotalUnits))

\* Both aggregates computed over a zero-row orders table.
C11_Witness ==
    /\ HasCol(orders_df, "subtotal") /\ orders_df.rows = <<>>
    /\ gold["average_order_value"] # NoTable
    /\ gold["total_revenue"] # NoTable

\* Both aggregates computed over rows whose mean is not a whole number.
C11_WitnessMean ==
    /\ Len(orders_df.rows) = 2
    /\ gold["average_order_value"] # NoTable
    /\ gold["average_order_value"].rows[1][1] = Float(3, 2)
    /\ gold["total_revenue"] # NoTable

\* ------------------------------------- the reporting nodes run concurrently

\* The pipeline's three nodes share the datasets cleaned_orders and
\* cleaned_tickets; a runner may run them side by side, each statement one step.
InitParallel ==
    /\ orders_df \in CleanedOrders
    /\ tickets_df \in CleanedTickets
    /\ gold = [n \in GoldNames |-> NoTable]
    /\ par = NotStarted(orders_df, tickets_df)
    /\ InitIdleCleaning
    /\ InitIdleSerializer

IsAt(n, label) == par.pc[n] = label
Goto(p, n, label) == [p EXCEPT !.pc[n] = label]

\* avg_order_value = orders["subtotal"].mean()
AovMean ==
    /\ IsAt("average_order_value", "start")
    /\ par' = Goto([par EXCEPT !.avg_order_value = mean(orders_df, "subtotal")],
                   "average_order_value", "mean")
    /\ UNCHANGED <<orders_df, tickets_df, gold, cleanVars, serVars>>

\* return pd.DataFrame({"average_order_value": [avg_order_value]})
AovReturn ==
    /\ IsAt("average_order_value", "mean")
    /\ gold' = [gold EXCEPT !["average_order_value"] =
                   DataFrame(<<"average_order_value">>, <<<<par.avg_order_value>>>>)]
    /\ par' = Goto(par, "average_order_value", "done")
    /\ UNCHANGED <<orders_df, tickets_df, cleanVars, serVars>>

\* order_tickets = pd.merge(orders, tickets, on="order_id"): a new frame.
TpoMerge ==
    /\ IsAt("tickets_per_order", "start")
    /\ par' = Goto([par EXCEPT !.order_tickets = merge(orders_df, tickets_df, "order_id")],
                   "tickets_per_order", "merged")
    /\ UNCHANGED <<orders_df, tickets_df, gold, cleanVars, serVars>>

\* tickets_per_order = order_tickets.groupby(..)[..].count().reset_index()
TpoCount ==
    /\ IsAt("tickets_per_order", "merged")
    /\ par' = Goto([par EXCEPT !.tickets_per_order =
                                 groupby_count(par.order_tickets, "order_id", "ticket_id")],
                   "tickets_per_order", "counted")
    /\ UNCHANGED <<orders_df, tickets_df, gold, cleanVars, serVars>>

\* The counted frame with its column left as it was.
CountedNotRenamed(df) == df

\* tickets_per_order.rename(columns={..}, inplace=True): acts on the counted frame.
CountedRenamed(df) == rename(df, "ticket_id", "number_of_tickets")
TpoRename ==
    /\ IsAt("tickets_per_order", "counted")
    /\ par' = Goto([par EXCEPT !.tickets_per_order = CountedRenamed(par.tickets_per_order)],
                   "tickets_per_order", "renamed")
    /\ UNCHANGED <<orders_df, tickets_df, gold, cleanVars, serVars>>

\* return tickets_per_order
TpoReturn ==
    /\ IsAt("tickets_per_order", "renamed")
    /\ gold' = [gold EXCEPT !["tickets_per_order"] = par.tickets_per_order]
    /\ par' = Goto(par, "tickets_per_order", "done")
    /\ UNCHANGED <<orders_df, tickets_df, cleanVars, serVars>>

\* total_revenue = orders["subtotal"].sum()
RevSum ==
    /\ IsAt("total_revenue", "start")
    /\ par' = Goto([par EXCEPT !.total_revenue = sum(orders_df, "subtotal")],
                   "total_revenue", "summed")
    /\ UNCHANGED <<orders_df, tickets_df, gold, cleanVars, serVars>>

\* return pd.DataFrame({"total_revenue": [total_revenue]})
RevReturn ==
    /\ IsAt("total_revenue", "summed")
    /\ gold' = [gold EXCEPT !["total_revenue"] =
                   DataFrame(<<"total_revenue">>, <<<<par.total_revenue>>>>)]
    /\ par' = Goto(par, "total_revenue", "done")
    /\ UNCHANGED <<orders_df, tickets_df, cleanVars, serVars>>

NextParallel ==
    \/ AovMean \/ AovReturn
    \/ TpoMerge \/ TpoCount \/ TpoRename \/ TpoReturn
    \/ RevSum \/ RevReturn

SpecParallel == InitParallel /\ [][NextParallel]_vars

\* C15: however the steps of the three reporting nodes interleave, the two input
\* tables stay as they were handed over, and a node that has returned has
\* returned the table it returns when run alone on those inputs.
C15_Interleaving ==
    /\ orders_df = par.orders /\ tickets_df = par.tickets
    /\ IsAt("average_order_value", "done") =>
           gold["average_order_value"] = create_average_order_value(par.orders)
    /\ IsAt("tickets_per_order", "done") =>
           gold["tickets_per_order"] = create_tickets_per_order(par.orders, par.tickets)
    /\ IsAt("total_revenue", "done") =>
           gold["total_revenue"] = create_total_revenue(par.orders)

\* tickets_per_order has returned a non-empty table while the other two nodes
\* are between their statements.
C15_Witness ==
    /\ IsAt("tickets_per_order", "done") /\ Len(gold["tickets_per_order"].rows) > 0
    /\ IsAt("average_order_value", "mean")
    /\ IsAt("total_revenue", "summed")

\* All three nodes have returned.
C15_AllReturned ==
    /\ \A n \in GoldNames : IsAt(n, "done") /\ gold[n] # NoTable
    /\ Len(gold["tickets_per_order"].rows) > 0


\* ------------------------------------------ claims about the cleaning nodes, continued

\* The identity key of the table a node cleans.
KeyColumn(n) ==
    CASE n = "clean_customers" -> "id"
      [] n = "clean_orders" -> "order_id"
      [] n = "clean_tickets" -> "ticket_id"

\* Series.nunique() of the column at position c.
nunique(df, c) == Cardinality({df.rows[r][c] : r \in 1..Len(df.rows)})

\* C12: in a table a cleaning node returns no two rows share the identity key: the
\* number of distinct values of id (customers), order_id (orders) or ticket_id
\* (tickets) equals the number of rows.
C12_KeyUnique ==
    HasReturned =>
        \A c \in ColsNamed(Out, KeyColumn(node)) : nunique(Out, c) = Len(Out.rows)

\* C13: a raw tickets row with a null in any column, tags included, is no row of
\* the table clean_tickets returns.
C13_NullRowsAbsent ==
    (node = "clean_tickets" /\ FirstReturned) =>
        \A i \in 1..Len(before.df.rows) :
            ~HasNoNull(before.df.rows, i) =>
                \A k \in 1..Len(Out.rows) :
                    Out.rows[k] # CleanedRow(before.df.cols, before.df.rows[i])

\* s is t with some elements left out, order kept.
RECURSIVE IsSubsequence(_, _)
IsSubsequence(s, t) ==
    IF s = <<>> THEN TRUE
    ELSE IF t = <<>> THEN FALSE
    ELSE IF Head(s) = Head(t) THEN IsSubsequence(Tail(s), Tail(t))
    ELSE IsSubsequence(s, Tail(t))

\* C14: the table clean_customers returns (duplicates removed, then null rows) is
\* the table that removing null rows first and duplicates second gives, same rows
\* in the same order, and its rows are a subsequence of the raw rows.
C14_DedupDropnaCommute ==
    (node = "clean_customers" /\ FirstReturned) =>
        /\ Out = drop_duplicates(dropna(before.df))
        /\ IsSubsequence(Out.rows, before.df.rows)

\* A raw table where a row between two equal rows has a null, and a null row repeats.
C14_Witness ==
    /\ node = "clean_customers" /\ FirstReturned
    /\ Len(before.df.rows) = 3
    /\ before.df.rows[1] = before.df.rows[3]
    /\ ~HasNoNull(before.df.rows, 2)
    /\ HasNoNull(before.df.rows, 1)
    /\ Len(Out.rows) = 1

====
